---- MODULE Spec2Model ----
(***************************************************************************)
(* Model of the terminal Snake game of src/src/main.rs: the Game struct    *)
(* (new, step, spawn_food, change_dir) and the driver loop of main (render *)
(* phase with resize handling, input phase, simulation phase, sleep).      *)
(*                                                                         *)
(* The drawing of the frame itself (block, rows, score line, overlays) is  *)
(* not modelled: it reads the game and writes only to the terminal.        *)
(***************************************************************************)
EXTENDS Integers, Sequences, FiniteSets

\* Largest terminal size (columns, rows) the render phase can observe.
MaxCols == 4
MaxRows == 4
\* How many loop iterations the model lets fit into one tick interval (the
\* program fits up to TickRate / SleepMs of them).
MaxPolls == 2

\* Largest board side of the runs of a fresh game straight to the wall.
MaxRun == 10

\* u16::MAX, the largest coordinate of a Point.
U16Max == 65535

\* Duration::from_millis(120): the tick interval; Duration::from_millis(10): the sleep.
TickRate == 120
SleepMs == 10
\* Border cells removed from the terminal size on each axis.
Border == 2

VARIABLES
    game,      \* Option<Game>: <<>> is None, <<g>> is Some(g)
    paused,    \* main's `paused`
    elapsed,   \* last_tick.elapsed() in ms, saturated at TickRate
    pc,        \* position of the driver loop
    resized,   \* the render phase detected a resize and the iteration has not
               \* yet passed its simulation phase
    due,       \* the simulation-phase condition held after this iteration's input phase
    stepped    \* what step() did in the current iteration, "none" if it was not called

vars == <<game, paused, elapsed, pc, resized, due, stepped>>

----------------------------------------------------------------------------
\* Data

DirectionSnake == {"Up", "Down", "Left", "Right"}

Point(x, y) == [x |-> x, y |-> y]

KeyEventKind == {"Press", "Repeat", "Release"}
KeyCode == {"Up", "Down", "Left", "Right", "Esc", "Space", "Other"}

\* Results of rx.try_recv(): Ok(KeyEvent), Err(Empty), Err(Disconnected).
Empty == [kind |-> "Empty", code |-> "None"]
Disconnected == [kind |-> "Disconnected", code |-> "None"]
KeyEvents == [kind : KeyEventKind, code : KeyCode]
RecvResults == KeyEvents \cup {Empty, Disconnected}

\* Terminal sizes on one axis: 0 stands for every size the border uses up
\* (0, 1 and 2 all leave a board dimension of 0).
TermSizes(max) == {0} \cup ((Border + 1)..max)

\* What one pass through thread::sleep (and the rest of the iteration) can add
\* to last_tick.elapsed(): the sleep is a lower limit, the drawing and the
\* scheduler add to it without limit. The model distinguishes a short pass
\* (MaxPolls of them reach the tick interval) and a pass that takes a whole
\* tick interval.
ShortPass == IF TickRate \div MaxPolls >= SleepMs THEN TickRate \div MaxPolls ELSE SleepMs
Delays == {ShortPass, TickRate}

Contains(s, p) == \E i \in 1..Len(s) : s[i] = p

Front(s) == SubSeq(s, 1, Len(s) - 1)

SaturatingSub(a, b) == IF a >= b THEN a - b ELSE 0

Advance(e, d) == IF e + d >= TickRate THEN TickRate ELSE e + d

----------------------------------------------------------------------------
\* impl Game

New(width, height) ==
    [snake |-> <<Point(width \div 2, height \div 2)>>,
     dir |-> "Right",
     food |-> Point(width \div 3, height \div 3),
     width |-> width,
     height |-> height,
     game_over |-> FALSE,
     score |-> 0]

\* The match on self.dir in step(): the candidate head and whether the move
\* leaves the board. Up and Left test before decrementing, Down and Right
\* increment and then test. (A non-terminated head is below 2^16 - 1 on both
\* axes, so the increments stay inside u16.)
MoveHeadLateWall(g) ==
    LET h == Head(g.snake) IN
    CASE g.dir = "Up" ->
            IF h.y = 0 THEN [out |-> TRUE, head |-> h]
            ELSE [out |-> FALSE, head |-> Point(h.x, h.y - 1)]
      [] g.dir = "Down" ->
            [out |-> h.y + 1 > g.height, head |-> Point(h.x, h.y + 1)]
      [] g.dir = "Left" ->
            IF h.x = 0 THEN [out |-> TRUE, head |-> h]
            ELSE [out |-> FALSE, head |-> Point(h.x - 1, h.y)]
      [] g.dir = "Right" ->
            [out |-> h.x + 1 > g.width, head |-> Point(h.x + 1, h.y)]

MoveHead(g) ==
    LET h == Head(g.snake) IN
    CASE g.dir = "Up" ->
            IF h.y = 0 THEN [out |-> TRUE, head |-> h]
            ELSE [out |-> FALSE, head |-> Point(h.x, h.y - 1)]
      [] g.dir = "Down" ->
            [out |-> h.y + 1 >= g.height, head |-> Point(h.x, h.y + 1)]
      [] g.dir = "Left" ->
            IF h.x = 0 THEN [out |-> TRUE, head |-> h]
            ELSE [out |-> FALSE, head |-> Point(h.x - 1, h.y)]
      [] g.dir = "Right" ->
            [out |-> h.x + 1 >= g.width, head |-> Point(h.x + 1, h.y)]

\* self.snake.contains(&new_head)
SelfCollidesTailOnly(g, p) == g.snake[Len(g.snake)] = p

SelfCollides(g, p) == Contains(g.snake, p)

\* push_front(new_head); score += 1 (spawn_food follows)
GrowScoresLength(g, p) == [g EXCEPT !.snake = <<p>> \o @, !.score = Len(g.snake) + 1]

GrowNoScore(g, p) == [g EXCEPT !.snake = <<p>> \o @]

Grow(g, p) == [g EXCEPT !.snake = <<p>> \o @, !.score = @ + 1]

\* push_front(new_head); pop_back()
SlideNoPop(g, p) == [g EXCEPT !.snake = <<p>> \o @]

Slide(g, p) == [g EXCEPT !.snake = Front(<<p>> \o @)]

\* step() up to the call of spawn_food: the game after it and what the call
\* did ("noop": returned at once, "lost": set game_over, "ate": grew and
\* enters spawn_food, "moved": moved without growing).
StepEarlyPush(g) ==
    IF g.game_over THEN [game |-> g, outcome |-> "noop"]
    ELSE LET m == MoveHead(g) IN
         IF m.out THEN [game |-> [g EXCEPT !.game_over = TRUE], outcome |-> "lost"]
         ELSE IF SelfCollides(g, m.head)
              THEN [game |-> [g EXCEPT !.snake = <<m.head>> \o @, !.game_over = TRUE],
                    outcome |-> "lost"]
         ELSE IF m.head = g.food THEN [game |-> Grow(g, m.head), outcome |-> "ate"]
         ELSE [game |-> Slide(g, m.head), outcome |-> "moved"]

Step(g) ==
    IF g.game_over THEN [game |-> g, outcome |-> "noop"]
    ELSE LET m == MoveHead(g) IN
         IF m.out THEN [game |-> [g EXCEPT !.game_over = TRUE], outcome |-> "lost"]
         ELSE IF SelfCollides(g, m.head)
              THEN [game |-> [g EXCEPT !.game_over = TRUE], outcome |-> "lost"]
         ELSE IF m.head = g.food THEN [game |-> Grow(g, m.head), outcome |-> "ate"]
         ELSE [game |-> Slide(g, m.head), outcome |-> "moved"]

\* spawn_food: the cells random_range can return, and the test that ends the loop.

SpawnCellsShort(g) == {Point(x, y) : x \in 0..(g.width - 2), y \in 0..(g.height - 2)}

SpawnCells(g) == {Point(x, y) : x \in 0..(g.width - 1), y \in 0..(g.height - 1)}

SpawnAcceptsAny(g, p) == TRUE

SpawnAccepts(g, p) == ~Contains(g.snake, p)

Opposite(a, b) ==
    \/ a = "Up" /\ b = "Down"
    \/ a = "Down" /\ b = "Up"
    \/ a = "Left" /\ b = "Right"
    \/ a = "Right" /\ b = "Left"

ChangeDirAlwaysGuarded(g, d) ==
    IF Opposite(g.dir, d) THEN g ELSE [g EXCEPT !.dir = d]

ChangeDir(g, d) ==
    IF Len(g.snake) = 1 THEN [g EXCEPT !.dir = d]
    ELSE IF Opposite(g.dir, d) THEN g
    ELSE [g EXCEPT !.dir = d]

----------------------------------------------------------------------------
\* main: the resize branch of the draw closure

Fits(p, width, height) == p.x < width /\ p.y < height

ResizeIgnoresFood(g, width, height) ==
    LET snake_fits == \A i \in 1..Len(g.snake) : Fits(g.snake[i], width, height)
    IN [g EXCEPT !.width = width, !.height = height,
                 !.game_over = IF ~snake_fits THEN TRUE ELSE @]

ResizeClipsFood(g, width, height) ==
    LET snake_fits == \A i \in 1..Len(g.snake) : Fits(g.snake[i], width, height)
        clip(v, n) == IF v < n \/ n = 0 THEN v ELSE n - 1
    IN [g EXCEPT !.width = width, !.height = height,
                 !.food = Point(clip(@.x, width), clip(@.y, height)),
                 !.game_over = IF ~snake_fits THEN TRUE ELSE @]

ResizeIgnoresSnake(g, width, height) ==
    LET food_fits == Fits(g.food, width, height)
    IN [g EXCEPT !.width = width, !.height = height,
                 !.game_over = IF ~food_fits THEN TRUE ELSE @]

ResizeRevives(g, width, height) ==
    LET snake_fits == \A i \in 1..Len(g.snake) : Fits(g.snake[i], width, height)
        food_fits == Fits(g.food, width, height)
    IN [g EXCEPT !.width = width, !.height = height,
                 !.game_over = ~snake_fits \/ ~food_fits]

Resize(g, width, height) ==
    LET snake_fits == \A i \in 1..Len(g.snake) : Fits(g.snake[i], width, height)
        food_fits == Fits(g.food, width, height)
    IN [g EXCEPT !.width = width, !.height = height,
                 !.game_over = IF ~snake_fits \/ ~food_fits THEN TRUE ELSE @]

\* !game.game_over && !paused && last_tick.elapsed() >= tick_rate
TickDueIgnoresPause(gm, p, e) == gm # <<>> /\ ~gm[1].game_over /\ e >= TickRate

TickDue(gm, p, e) == gm # <<>> /\ ~gm[1].game_over /\ ~p /\ e >= TickRate

----------------------------------------------------------------------------
Init ==
    /\ game = <<>>
    /\ paused = FALSE
    /\ elapsed = 0
    /\ pc = "draw"
    /\ resized = FALSE
    /\ due = FALSE
    /\ stepped = "none"

\* terminal.draw on a terminal of cols x rows: derive the board size,
\* construct the game on the first pass, handle a resize.
DrawAtWithoutPause(cols, rows) ==
    LET width == SaturatingSub(cols, Border)
        height == SaturatingSub(rows, Border)
        g == IF game = <<>> THEN New(width, height) ELSE game[1]
        changed == g.width # width \/ g.height # height
    IN /\ game' = <<IF changed THEN Resize(g, width, height) ELSE g>>
       /\ resized' = changed
       /\ pc' = "input"
       /\ due' = FALSE
       /\ stepped' = "none"
       /\ UNCHANGED <<paused, elapsed>>

DrawAt(cols, rows) ==
    LET width == SaturatingSub(cols, Border)
        height == SaturatingSub(rows, Border)
        g == IF game = <<>> THEN New(width, height) ELSE game[1]
        changed == g.width # width \/ g.height # height
    IN /\ game' = <<IF changed THEN Resize(g, width, height) ELSE g>>
       /\ paused' = (changed \/ paused)
       /\ resized' = changed
       /\ pc' = "input"
       /\ due' = FALSE
       /\ stepped' = "none"
       /\ UNCHANGED elapsed

\* The render phase, the terminal having any size.
Draw ==
    /\ pc = "draw"
    /\ \E cols \in TermSizes(MaxCols), rows \in TermSizes(MaxRows) : DrawAt(cols, rows)

\* The render phase on a terminal that leaves a board of at least 1 x 1 and is
\* not resized once the game exists.
DrawSteady ==
    /\ pc = "draw"
    /\ IF game = <<>>
       THEN \E cols \in (Border + 1)..MaxCols, rows \in (Border + 1)..MaxRows :
               DrawAt(cols, rows)
       ELSE DrawAt(game[1].width + Border, game[1].height + Border)

\* *game = Game::new(game.width, game.height)
RestartKeepsScore(g) == [New(g.width, g.height) EXCEPT !.score = g.score]

Restart(g) == New(g.width, g.height)

\* The dispatch of one key release on the game's sub-state.
Dispatch(code) ==
    LET g == game[1] IN
    IF g.game_over THEN
        CASE code = "Space" ->
                /\ game' = <<Restart(g)>>
                /\ paused' = FALSE
                /\ elapsed' = 0
                /\ pc' = "sim"
          [] code = "Esc" ->
                /\ pc' = "exit"
                /\ UNCHANGED <<game, paused, elapsed>>
          [] OTHER ->
                /\ pc' = "sim"
                /\ UNCHANGED <<game, paused, elapsed>>
    ELSE IF paused THEN
        /\ paused' = (code # "Esc")
        /\ pc' = "sim"
        /\ UNCHANGED <<game, elapsed>>
    ELSE
        /\ paused' = (code = "Esc")
        /\ game' = IF code \in DirectionSnake THEN <<ChangeDir(g, code)>> ELSE game
        /\ pc' = "sim"
        /\ UNCHANGED elapsed

\* match rx.try_recv(), the result being r
Recv(r) ==
    /\ CASE r = Empty ->
               /\ pc' = "sim"
               /\ UNCHANGED <<game, paused, elapsed>>
          [] r = Disconnected ->
               /\ pc' = "exit"
               /\ UNCHANGED <<game, paused, elapsed>>
          [] r.kind \in {"Press", "Repeat"} ->
               /\ pc' = "draw"
               /\ UNCHANGED <<game, paused, elapsed>>
          [] OTHER -> Dispatch(r.code)
    /\ due' = (pc' # "exit" /\ TickDue(game', paused', elapsed'))
    /\ resized' = (resized /\ pc' = "sim")
    /\ UNCHANGED stepped

\* The input phase: whatever the input thread has queued.
Input ==
    /\ pc = "input"
    /\ \E r \in RecvResults : Recv(r)

\* The simulation phase and the sleep that ends the iteration. A step that
\* eats the food enters spawn_food's loop.
Simulate ==
    /\ pc = "sim"
    /\ IF TickDue(game, paused, elapsed)
       THEN LET r == Step(game[1]) IN
            /\ game' = <<r.game>>
            /\ stepped' = r.outcome
            /\ IF r.outcome = "ate"
               THEN pc' = "spawn" /\ UNCHANGED elapsed
               ELSE /\ pc' = "draw"
                    /\ \E d \in Delays : elapsed' = Advance(0, d)
       ELSE /\ pc' = "draw"
            /\ \E d \in Delays : elapsed' = Advance(elapsed, d)
            /\ UNCHANGED <<game, stepped>>
    /\ resized' = FALSE
    /\ UNCHANGED <<paused, due>>

\* One pass of spawn_food's loop. random_range panics on an empty range; a
\* drawn cell that the snake occupies sends the loop round again.
SpawnFood ==
    /\ pc = "spawn"
    /\ LET g == game[1] IN
       IF g.width = 0 \/ g.height = 0
       THEN pc' = "panic" /\ UNCHANGED <<game, elapsed>>
       ELSE \E p \in SpawnCells(g) :
               IF SpawnAccepts(g, p)
               THEN /\ game' = <<[g EXCEPT !.food = p]>>
                    /\ pc' = "draw"
                    /\ \E d \in Delays : elapsed' = Advance(0, d)
               ELSE UNCHANGED <<game, pc, elapsed>>
    /\ UNCHANGED <<paused, resized, due, stepped>>

Next == Draw \/ Input \/ Simulate \/ SpawnFood

Spec == Init /\ [][Next]_vars

\* The program on a steady terminal.
NextSteady == DrawSteady \/ Input \/ Simulate \/ SpawnFood

SpecSteady == Init /\ [][NextSteady]_vars

\* The program from a game just constructed on a board of up to MaxRun x
\* MaxRun, on a steady terminal and with no key event: step() is called tick
\* after tick with nothing in between.
InitRun ==
    /\ \E width \in 1..MaxRun, height \in 1..MaxRun : game = <<New(width, height)>>
    /\ paused = FALSE
    /\ elapsed = 0
    /\ pc = "input"
    /\ resized = FALSE
    /\ due = FALSE
    /\ stepped = "none"

InputNothing == pc = "input" /\ Recv(Empty)

NextRun == DrawSteady \/ InputNothing \/ Simulate

SpecRun == InitRun /\ [][NextRun]_vars

\* spawn_food leaves its loop: the cell drawn is free.
SpawnDone == SpawnFood /\ pc' # pc

\* The program on a steady terminal, the random draws of spawn_food being
\* fair: a loop that could always draw a free cell does draw one.
SpecSteadyFair == SpecSteady /\ WF_vars(SpawnDone)

----------------------------------------------------------------------------
\* Vocabulary of the properties, defined from the state alone.

HasGame == game # <<>>

G == game[1]

SnakeCells(g) == {g.snake[i] : i \in 1..Len(g.snake)}

BoardCells(g) == {Point(x, y) : x \in 0..(g.width - 1), y \in 0..(g.height - 1)}

InBounds(p, g) == p.x >= 0 /\ p.x < g.width /\ p.y >= 0 /\ p.y < g.height

\* The cell one move away from p in direction d (outside the grid when
\* a coordinate is -1).
Moved(p, d) ==
    Point(p.x + (IF d = "Right" THEN 1 ELSE IF d = "Left" THEN -1 ELSE 0),
          p.y + (IF d = "Down" THEN 1 ELSE IF d = "Up" THEN -1 ELSE 0))

Candidate(g) == Moved(Head(g.snake), g.dir)

NoDuplicates(q) == \A i, j \in 1..Len(q) : i # j => q[i] # q[j]

\* The simulation phase is about to call step().
StepStarts == pc = "sim" /\ TickDue(game, paused, elapsed)

\* This step replaces the game by a fresh one: the first construction in the
\* render phase, or the restart in the input phase.
Constructs ==
    \/ game = <<>> /\ game' # <<>>
    \/ game # <<>> /\ pc = "input" /\ game[1].game_over /\ ~game'[1].game_over

----------------------------------------------------------------------------
\* C1: on a board with width >= 1 and height >= 1, step() never enters the
\* food-respawn loop with the snake (new head included) on every board cell,
\* so every started step() completes.
C1_RespawnHasFreeCell ==
    (pc = "spawn" /\ G.width >= 1 /\ G.height >= 1)
        => BoardCells(G) \ SnakeCells(G) # {}

\* C2: when step() is called on a non-terminated snake of length > 1, the
\* candidate head is never the segment directly behind the head, whatever
\* change_dir calls were dispatched since the previous step().
C2_NoStepIntoNeck ==
    (StepStarts /\ Len(G.snake) > 1) => Candidate(G) # G.snake[2]

\* C3: an iteration whose input phase leaves a game that exists, is not
\* terminated and not paused, with the tick interval elapsed, calls step()
\* before the next iteration starts, whatever was drained from the queue.
C3_DueIterationSteps ==
    (pc = "draw" /\ due) => stepped # "none"

\* C4: whenever a game exists (on a board of at least 1 x 1, which new()
\* requires), the food is inside the stored bounds.
C4_FoodInBounds ==
    (HasGame /\ G.width >= 1 /\ G.height >= 1)
        => (G.food.x < G.width /\ G.food.y < G.height)

\* C4 amended: whenever a game exists, is not terminated and has stored
\* width >= 1 and height >= 1, the food is inside the stored bounds.
C4_FoodInBoundsWhileAlive ==
    (HasGame /\ ~G.game_over /\ G.width >= 1 /\ G.height >= 1)
        => (G.food.x < G.width /\ G.food.y < G.height)

\* A non-terminated game on a proper board that has respawned its food and
\* has since survived a resize to a board other than the one it was built on.
C4_Witness ==
    /\ HasGame /\ ~G.game_over /\ G.width >= 1 /\ G.height >= 1
    /\ G.score >= 1 /\ paused /\ pc = "input"
    /\ G.food.x = G.width - 1

\* C5: a game constructed by new(width, height) with width >= 1 and
\* height >= 1, at first construction and at restart, has its food at
\* (width/3, height/3) and not on the snake.
C5_NewFoodOffSnake ==
    [][(Constructs /\ game'[1].width >= 1 /\ game'[1].height >= 1)
          => /\ game'[1].food = Point(game'[1].width \div 3, game'[1].height \div 3)
             /\ game'[1].food \notin SnakeCells(game'[1])]_vars

\* C6: while the game is not terminated, no two snake segments are equal.
C6_NoDuplicates ==
    (HasGame /\ ~G.game_over) => NoDuplicates(G.snake)

\* A non-terminated snake of three segments whose next step() would run into
\* its own body.
C6_Witness ==
    /\ StepStarts /\ Len(G.snake) >= 3
    /\ Candidate(G) \in SnakeCells(G)

\* C7: a step() that terminates the game leaves snake, food, score and dir
\* as they were.
C7_LosingStepCommitsNothing ==
    [][(pc = "sim" /\ HasGame /\ ~G.game_over /\ game'[1].game_over)
          => /\ game'[1].snake = G.snake
             /\ game'[1].food = G.food
             /\ game'[1].score = G.score
             /\ game'[1].dir = G.dir]_vars

\* step() has just lost by running into the snake's own body, inside the
\* board, with the food already respawned away from its first place.
C7_Witness ==
    /\ pc = "draw" /\ stepped = "lost" /\ Len(G.snake) >= 3
    /\ InBounds(Candidate(G), G)
    /\ Candidate(G) \in SnakeCells(G)

\* C8: a step() whose candidate head is the food leaves the snake as the
\* candidate head followed by the whole old snake; any other step() leaves
\* the length of the snake unchanged.
C8_Growth ==
    [][StepStarts
          => IF Candidate(G) = G.food
             THEN game'[1].snake = <<Candidate(G)>> \o G.snake
             ELSE Len(game'[1].snake) = Len(G.snake)]_vars

\* step() has just eaten with a body of at least two segments behind the head.
C8_Witness ==
    pc = "spawn" /\ stepped = "ate" /\ Len(G.snake) >= 3

\* C9: right after a respawn done by step(), the food is on no snake segment.
C9_RespawnOffSnake ==
    (pc = "draw" /\ stepped = "ate") => G.food \notin SnakeCells(G)

\* A respawn has just finished beside a snake of at least three segments.
C9_Witness ==
    pc = "draw" /\ stepped = "ate" /\ Len(G.snake) >= 3

\* C10: except at a restart, every step of the program leaves the score as it
\* was, apart from a step() whose candidate head is the food, which adds 1.
C10_ScoreMonotone ==
    [][(HasGame /\ ~Constructs)
          => game'[1].score =
                IF StepStarts /\ Candidate(G) = G.food THEN G.score + 1 ELSE G.score]_vars

\* A game that has eaten twice and has then been resized or paused.
C10_Witness ==
    HasGame /\ G.score >= 2 /\ paused /\ ~G.game_over

----------------------------------------------------------------------------
\* Further vocabulary.

\* The reverse of a direction.
Reverse(d) ==
    CASE d = "Up" -> "Down" [] d = "Down" -> "Up"
      [] d = "Left" -> "Right" [] d = "Right" -> "Left"

Release(code) == [kind |-> "Release", code |-> code]

\* The input phase drains a release of `code`.
Drains(code) == pc = "input" /\ Recv(Release(code))

\* The game new(width, height) is documented to build.
FreshGame(width, height) ==
    [snake |-> <<Point(width \div 2, height \div 2)>>,
     dir |-> "Right",
     food |-> Point(width \div 3, height \div 3),
     width |-> width, height |-> height,
     game_over |-> FALSE, score |-> 0]

\* n calls of step() in a row, none of which eats (a call that eats is
\* reported by the outcome and ends the run).
RECURSIVE StepN(_, _)
StepN(g, n) ==
    IF n = 0 THEN [game |-> g, outcome |-> "none"]
    ELSE LET r == StepN(g, n - 1) IN
         IF r.outcome = "ate" THEN r ELSE Step(r.game)

\* C11: an arrow release dispatched to change_dir (game running, not paused)
\* sets dir to the requested direction when the snake has one segment or the
\* request is not the reverse of dir, leaves dir alone otherwise, and changes
\* nothing else.
C11_ChangeDirection ==
    [][(pc = "input" /\ HasGame /\ ~G.game_over /\ ~paused)
          => \A d \in DirectionSnake :
                Drains(d)
                   => /\ game'[1] = [G EXCEPT !.dir =
                                       IF Len(G.snake) = 1 \/ d # Reverse(G.dir) THEN d ELSE @]
                      /\ paused' = paused]_vars

\* A running snake of two or more segments that moved along a row has been
\* turned Up or Down.
C11_Witness ==
    /\ pc = "sim" /\ HasGame /\ ~G.game_over /\ ~paused
    /\ Len(G.snake) >= 2 /\ G.dir \in {"Up", "Down"} /\ G.snake[2].y = G.snake[1].y

\* C12: on a freshly constructed W x H game (W, H >= 1), step() called
\* repeatedly with nothing in between leaves the game running with one
\* segment and score 0 for the first W - W/2 - 1 calls, and call number
\* W - W/2 terminates it, still with one segment and score 0.
C12_FreshRunToTheWall ==
    (HasGame /\ G = FreshGame(G.width, G.height) /\ G.width >= 1 /\ G.height >= 1)
        => LET last == G.width - (G.width \div 2) IN
           \A k \in 1..last :
              LET r == StepN(G, k).game IN
              /\ r.game_over = (k = last)
              /\ Len(r.snake) = 1
              /\ r.score = 0

\* A fresh game on the widest board has just run into the right wall.
C12_Witness ==
    /\ pc = "draw" /\ stepped = "lost"
    /\ G.width = MaxRun /\ G.height = MaxRun
    /\ G.snake = <<Point(MaxRun - 1, MaxRun \div 2)>>

\* C13: while the game is terminated, every step of the program other than
\* a drained Space release leaves terminated true and snake, dir, food and
\* score as they were.
C13_TerminatedAbsorbing ==
    [][(HasGame /\ G.game_over /\ ~Drains("Space"))
          => /\ game'[1].game_over
             /\ game'[1].snake = G.snake
             /\ game'[1].dir = G.dir
             /\ game'[1].food = G.food
             /\ game'[1].score = G.score]_vars

\* A game lost by step() that has since been resized to a board holding
\* snake and food, with the tick interval elapsed.
C13_Witness ==
    /\ HasGame /\ G.game_over /\ G.score >= 1 /\ resized /\ pc = "sim"
    /\ elapsed >= TickRate
    /\ \A i \in 1..Len(G.snake) : Fits(G.snake[i], G.width, G.height)
    /\ Fits(G.food, G.width, G.height)

\* C14: a drained Space release on a terminated game replaces it by
\* new(width, height) for the stored size and clears paused; on a game that
\* is not terminated it changes neither the game nor paused nor the timer.
C14_RestartOnlyWhenTerminated ==
    [][Drains("Space")
          => IF G.game_over
             THEN /\ game' = <<FreshGame(G.width, G.height)>>
                  /\ paused' = FALSE
                  /\ elapsed' = 0
             ELSE UNCHANGED <<game, paused, elapsed>>]_vars

\* A game just restarted from a paused, terminated game that had scored.
C14_Witness ==
    /\ pc = "sim" /\ resized /\ ~paused /\ elapsed = 0
    /\ HasGame /\ G = FreshGame(G.width, G.height) /\ G.width >= 2

\* C15: in an iteration whose render phase detected a resize, the simulation
\* phase does not call step(), whatever the input phase drained.
C15_NoStepAfterResize ==
    [][(pc = "sim" /\ resized) => stepped' = "none"]_vars

\* C15 amended: in an iteration whose render phase detected a resize, the
\* simulation phase does not call step() unless the input phase drained an
\* Escape release (which clears the pause the resize has set).
C15_NoStepAfterResizeUnlessEsc ==
    [][/\ (pc = "input" /\ resized /\ ~Drains("Esc")) => ~due'
       /\ (pc = "sim" /\ ~due) => stepped' = "none"]_vars

\* A running game with the tick interval elapsed reaches the simulation phase
\* of an iteration that detected a resize, still paused.
C15_Witness ==
    /\ pc = "sim" /\ resized /\ paused /\ ~due
    /\ HasGame /\ ~G.game_over /\ elapsed >= TickRate

\* C16: a resize detected on a non-terminated game stores the new size, sets
\* paused, terminates the game exactly if a segment or the food is outside
\* the new bounds, and leaves snake, food, dir and score as they were.
C16_ResizeEffect ==
    [][(pc = "draw" /\ HasGame /\ ~G.game_over)
          => \A cols \in TermSizes(MaxCols), rows \in TermSizes(MaxRows) :
                LET w == IF cols >= Border THEN cols - Border ELSE 0
                    h == IF rows >= Border THEN rows - Border ELSE 0
                    outside(p) == p.x >= w \/ p.y >= h
                IN ((w # G.width \/ h # G.height) /\ DrawAt(cols, rows))
                      => /\ game'[1] = [G EXCEPT !.width = w, !.height = h,
                                           !.game_over = \/ \E q \in SnakeCells(G) : outside(q)
                                                         \/ outside(G.food)]
                         /\ paused']_vars

\* A resize to a smaller board has just been detected that keeps the snake,
\* which has moved and turned since construction, and the food inside, the
\* game going on paused.
C16_Witness ==
    /\ pc = "input" /\ resized /\ paused
    /\ HasGame /\ ~G.game_over /\ G.dir # "Right"
    /\ G.width * G.height = 2

\* C17: while the game is paused and not terminated, no step of the program
\* (no drained key, no elapsed tick, no resize) changes snake, dir, food or
\* score.
C17_PausedFreezes ==
    [][(HasGame /\ paused /\ ~G.game_over)
          => /\ game'[1].snake = G.snake
             /\ game'[1].dir = G.dir
             /\ game'[1].food = G.food
             /\ game'[1].score = G.score]_vars

\* A paused game of two segments passes its simulation phase with the tick
\* interval elapsed.
C17_Witness ==
    /\ pc = "sim" /\ paused /\ ~resized /\ elapsed >= TickRate
    /\ HasGame /\ ~G.game_over /\ Len(G.snake) >= 2

\* C18: a food respawn entered with a free cell on the board ends, with the
\* food on a board cell that no snake segment occupies.
C18_RespawnTerminates ==
    (pc = "spawn" /\ BoardCells(G) \ SnakeCells(G) # {})
        ~> (pc = "draw" /\ stepped = "ate"
              /\ G.food \in BoardCells(G) \ SnakeCells(G))

\* A respawn is under way with exactly one free cell left.
C18_Witness ==
    pc = "spawn" /\ Cardinality(BoardCells(G) \ SnakeCells(G)) = 1

\* C19: in a non-terminated game on a board of at least 1 x 1 every snake
\* segment is inside the stored bounds, so the coordinates step() computes
\* stay within u16.
C19_SnakeInBounds ==
    (HasGame /\ ~G.game_over /\ G.width >= 1 /\ G.height >= 1)
        => /\ \A q \in SnakeCells(G) : q.x < G.width /\ q.y < G.height
           /\ Candidate(G).x <= U16Max /\ Candidate(G).y <= U16Max
           /\ MoveHead(G).head.x >= 0 /\ MoveHead(G).head.y >= 0

\* A non-terminated snake of three segments with its head on the last column
\* and row is about to step towards the wall.
C19_Witness ==
    /\ StepStarts /\ Len(G.snake) >= 3 /\ G.dir \in {"Right", "Down"}
    /\ Head(G.snake).x = G.width - 1 /\ Head(G.snake).y = G.height - 1

\* C20: whenever a game exists, score is the length of the snake less one.
C20_ScoreIsLengthLessOne ==
    HasGame => G.score = Len(G.snake) - 1

\* A game that has eaten twice and was then terminated by a resize.
C20_Witness ==
    /\ HasGame /\ Len(G.snake) = 3 /\ G.game_over /\ resized /\ pc = "input"

====
